---- MODULE Spec2Model ----
(***************************************************************************)
(* Model of scripts/fetch-daily-news.mjs: the daily-news driver (main,     *)
(* processSource, fetchAndParseRSS, fetchWithRetries, generateOpenAI-      *)
(* Summary, localSummaryFromText) and the earlier revision kept in the     *)
(* same file (translateAndSummarize, generateTitleBasedSummary).           *)
(*                                                                         *)
(* Strings are run-length encoded: a text is a sequence of runs            *)
(* [c |-> class, n |-> count], count >= 1, so that the program's real      *)
(* length constants (100, 800) apply.  Character classes:                  *)
(*   "a"  any character that is no whitespace, terminator, angle bracket   *)
(*        or brace                                                         *)
(*   "." "!" "?"  the sentence terminators of /[.?!]+/                     *)
(*   "sp" whitespace other than a line feed     "nl" line feed             *)
(*   "<" ">"  angle brackets         "{" "}"  braces                       *)
(*   "J"  the member list "titleKo": ..., "summary": ... of a JSON object  *)
(***************************************************************************)
EXTENDS Integers, Sequences, FiniteSets, TLC

\* ------------------------------------------------------------------ bounds
MaxRuns == 4
MaxBand == 3
LongRun == 450
MaxFaults == 1
MaxFeed == 6
MaxRows == 11
MaxBadRows == 1
MaxMarketRuns == 2

\* ------------------------------------------------------- program constants
ITEMS_PER_SOURCE == 5
RETRIES == 2
MIN_INPUT_LEN == 100
CLEAN_LIMIT == 800
TOP_N == 10

\* ------------------------------------------------------------ string model
Run(c, n) == [c |-> c, n |-> n]
Ch(c) == <<Run(c, 1)>>
Lit(n) == <<Run("a", n)>>
Empty == <<>>

Min2(a, b) == IF a < b THEN a ELSE b
Max2(a, b) == IF a > b THEN a ELSE b

\* canonical form: no empty run, no two adjacent runs of one class
RECURSIVE Norm(_)
Norm(s) ==
  IF Len(s) = 0 THEN <<>>
  ELSE IF s[1].n = 0 THEN Norm(Tail(s))
  ELSE LET r == Norm(Tail(s)) IN
       IF Len(r) > 0 /\ r[1].c = s[1].c
       THEN <<Run(s[1].c, s[1].n + r[1].n)>> \o Tail(r)
       ELSE <<s[1]>> \o r

\* String.prototype.length
RECURSIVE StrLen(_)
StrLen(s) == IF Len(s) = 0 THEN 0 ELSE s[1].n + StrLen(Tail(s))

IsWs(c) == c \in {"sp", "nl"}
IsTerm(c) == c \in {".", "!", "?"}

RECURSIVE TrimLeft(_)
TrimLeft(s) ==
  IF Len(s) = 0 THEN <<>>
  ELSE IF IsWs(s[1].c) THEN TrimLeft(Tail(s)) ELSE s

RECURSIVE TrimRight(_)
TrimRight(s) ==
  IF Len(s) = 0 THEN <<>>
  ELSE IF IsWs(s[Len(s)].c) THEN TrimRight(SubSeq(s, 1, Len(s) - 1)) ELSE s

\* String.prototype.trim
Trim(s) == TrimRight(TrimLeft(s))

\* s.replace(/[P]+/g, ' '): every maximal group of characters of the classes
\* P becomes one space
RECURSIVE ReplaceGroups(_, _)
ReplaceGroups(s, P) ==
  IF Len(s) = 0 THEN <<>>
  ELSE IF s[1].c \in P
       THEN IF Len(s) > 1 /\ s[2].c \in P
            THEN ReplaceGroups(Tail(s), P)
            ELSE <<Run("sp", 1)>> \o ReplaceGroups(Tail(s), P)
       ELSE <<s[1]>> \o ReplaceGroups(Tail(s), P)

\* s.replace(/\s+/g, ' ')
CollapseWs(s) == Norm(ReplaceGroups(s, {"sp", "nl"}))

\* variant: the pattern matches nothing (/\\n+/g, an escaped backslash)
NlToSpace_noMatch(s) == s

\* s.replace(/\n+/g, ' ')
NlToSpace(s) == Norm(ReplaceGroups(s, {"nl"}))

\* index of the first run of class c, 0 if none
RECURSIVE IndexOf(_, _, _)
IndexOf(s, c, from) ==
  IF from > Len(s) THEN 0
  ELSE IF s[from].c = c THEN from ELSE IndexOf(s, c, from + 1)

LastIndexOf(s, c) ==
  LET I == {i \in 1..Len(s) : s[i].c = c} IN
  IF I = {} THEN 0 ELSE CHOOSE i \in I : \A j \in I : j <= i

\* s.replace(/<[^>]*>/g, ''): from the first '<' up to and including the
\* first '>' after it, repeatedly
RECURSIVE StripTagsRaw(_)
StripTagsRaw(s) ==
  LET i == IndexOf(s, "<", 1) IN
  IF i = 0 THEN s
  ELSE LET j == IndexOf(s, ">", i + 1) IN
       IF j = 0 THEN s
       ELSE SubSeq(s, 1, i - 1)
            \o StripTagsRaw(<<Run(">", s[j].n - 1)>> \o SubSeq(s, j + 1, Len(s)))

StripTags(s) == Norm(StripTagsRaw(s))

\* s.slice(0, k) / s.substring(0, k)
RECURSIVE Slice(_, _)
Slice(s, k) ==
  IF Len(s) = 0 \/ k <= 0 THEN <<>>
  ELSE IF s[1].n >= k THEN <<Run(s[1].c, k)>>
  ELSE <<s[1]>> \o Slice(Tail(s), k - s[1].n)

\* s.split(/[.?!]+/): the pieces between maximal groups of terminators,
\* the empty pieces at both ends included
RECURSIVE SplitTerm(_, _)
SplitTerm(s, cur) ==
  IF Len(s) = 0 THEN <<cur>>
  ELSE IF IsTerm(s[1].c)
       THEN IF Len(s) > 1 /\ IsTerm(s[2].c)
            THEN SplitTerm(Tail(s), cur)
            ELSE <<cur>> \o SplitTerm(Tail(s), <<>>)
       ELSE SplitTerm(Tail(s), cur \o <<s[1]>>)

RECURSIVE TrimAll(_)
TrimAll(q) == IF Len(q) = 0 THEN <<>> ELSE <<Trim(q[1])>> \o TrimAll(Tail(q))

\* .filter(Boolean) on strings: the empty string is dropped
RECURSIVE FilterNonEmpty(_)
FilterNonEmpty(q) ==
  IF Len(q) = 0 THEN <<>>
  ELSE IF q[1] = <<>> THEN FilterNonEmpty(Tail(q))
  ELSE <<q[1]>> \o FilterNonEmpty(Tail(q))

\* text.split(/[.?!]+/).map(s => s.trim()).filter(Boolean)
Sentences(s) == FilterNonEmpty(TrimAll(SplitTerm(s, <<>>)))

\* q.join(sep)
RECURSIVE Join(_, _)
Join(q, sep) ==
  IF Len(q) = 0 THEN <<>>
  ELSE IF Len(q) = 1 THEN q[1]
  ELSE q[1] \o sep \o Join(Tail(q), sep)

\* s.endsWith('.')
EndsWithDot(s) == Len(s) > 0 /\ s[Len(s)].c = "."

HasNewline(s) == \E i \in 1..Len(s) : s[i].c = "nl"
EndsWithTerminator(s) == Len(s) > 0 /\ IsTerm(s[Len(s)].c)

\* a fixed phrase of the program: n characters (its single inner spaces
\* counted with the letters, no operation of the program tells them apart)
\* and the final period
Phrase(n) == Lit(n) \o Ch(".")

\* ---------------------------------------------- localSummaryFromText (v2)
\* the fixed phrase returned for a falsy text
DEFAULT_SUMMARY == Phrase(13)

\* text.replace(/<[^>]*>/g, '').replace(/\s+/g, ' ').trim().slice(0, 800)
Cleaned(text) == Slice(Trim(CollapseWs(StripTags(text))), CLEAN_LIMIT)

\* Math.min(Math.max(minSentences, 1), maxSentences)
Take(minSentences, maxSentences) == Min2(Max2(minSentences, 1), maxSentences)

\* raw.slice(0, take)
TakenSentences(raw, take) == SubSeq(raw, 1, Min2(Max2(take, 0), Len(raw)))

\* while (sentences.length < minSentences) { push(last or cleaned);
\*   if (sentences.length >= maxSentences) break; }
RECURSIVE PadSentences(_, _, _, _)
PadSentences(sentences, cleaned, minSentences, maxSentences) ==
  IF Len(sentences) >= minSentences THEN sentences
  ELSE LET pushed == Append(sentences,
                            IF Len(sentences) > 0 THEN sentences[Len(sentences)]
                            ELSE cleaned) IN
       IF Len(pushed) >= maxSentences THEN pushed
       ELSE PadSentences(pushed, cleaned, minSentences, maxSentences)

\* variant: the final period is not appended
Paragraph_noPeriod(sentences) ==
  Trim(CollapseWs(Join(sentences, Ch(".") \o Ch("sp"))))

\* join('. '), append '.' unless present, collapse whitespace, trim
Paragraph(sentences) ==
  LET joined == Join(sentences, Ch(".") \o Ch("sp"))
      dotted == IF EndsWithDot(joined) THEN joined ELSE joined \o Ch(".")
  IN Trim(CollapseWs(dotted))

localSummaryFromText(text, minSentences, maxSentences) ==
  IF text = Empty THEN DEFAULT_SUMMARY
  ELSE LET cleaned == Cleaned(text)
           raw == Sentences(cleaned)
           taken == TakenSentences(raw, Take(minSentences, maxSentences))
       IN Paragraph(PadSentences(taken, cleaned, minSentences, maxSentences))

\* --------------------------------------- generateTitleBasedSummary (v1)
TITLE_DEFAULT == Phrase(13)

variants(base) ==
  << base \o Phrase(17), Phrase(42), Phrase(40), Phrase(35), Phrase(26),
     Phrase(26), Phrase(34) >>

\* rnd is Math.floor(Math.random() * 4), one of 0..3
generateTitleBasedSummary(title, rnd) ==
  IF title = Empty \/ Trim(title) = Empty THEN TITLE_DEFAULT
  ELSE LET v == variants(Trim(title))
           needed == 4 + rnd
           sentences == SubSeq(v, 1, 1 + Min2(needed, Len(v) - 1))
           paragraph == Trim(CollapseWs(Join(sentences, Ch("sp"))))
       IN IF EndsWithDot(paragraph) THEN paragraph ELSE paragraph \o Ch(".")

\* ------------------------------------------------- remote response model
\* A chat-completion outcome is [kind |-> "error"] (the request rejects) or
\* [kind |-> "content", content, titleKo, summary, strings]: the message
\* content as text, and, for the member list "J" inside it, the values of
\* titleKo and summary (Empty: missing or empty) and whether they are strings.
StripWs(s) == SelectSeq(s, LAMBDA r : ~IsWs(r.c))

\* JSON.parse on the text: "obj" an object with the member list, "emptyobj"
\* the object {}, "fail" a SyntaxError (prose is no JSON value)
ParseJson(s) ==
  LET t == Norm(StripWs(s)) IN
  IF t = <<Run("{", 1), Run("J", 1), Run("}", 1)>> THEN "obj"
  ELSE IF t = <<Run("{", 1), Run("}", 1)>> THEN "emptyobj"
  ELSE "fail"

\* content.match(/\{[\s\S]*\}/): greedy, first '{' to last '}'; <<>> if none
JsonMatch(content) ==
  LET i == IndexOf(content, "{", 1)
      j == LastIndexOf(content, "}")
  IN IF i = 0 \/ j < i THEN <<>> ELSE SubSeq(content, i, j)

\* what `parsed` is after lines 522-529: "obj", "emptyobj", "null", or
\* "throw" when JSON.parse of the matched substring throws
ParsedOf(content) ==
  IF ParseJson(content) # "fail" THEN ParseJson(content)
  ELSE IF JsonMatch(content) = <<>> THEN "null"
  ELSE IF ParseJson(JsonMatch(content)) = "fail" THEN "throw"
  ELSE ParseJson(JsonMatch(content))

Threw == [threw |-> TRUE, titleKo |-> Empty, summary |-> Empty]
Returned(t, sm) == [threw |-> FALSE, titleKo |-> t, summary |-> sm]

generateOpenAISummary(title, text, resp) ==
  IF resp.kind = "error" THEN Threw
  ELSE IF resp.content = Empty THEN Threw
  ELSE LET parsed == ParsedOf(resp.content) IN
       IF parsed = "throw" THEN Threw
       ELSE IF parsed = "obj" /\ resp.titleKo # Empty /\ resp.summary # Empty
            THEN IF ~resp.strings THEN Threw
                 ELSE Returned(Trim(resp.titleKo), Trim(NlToSpace(resp.summary)))
            ELSE Returned(title, Trim(NlToSpace(resp.content)))

\* ------------------------------------------------ processSource, per item
\* a || b on strings
Or(a, b) == IF a # Empty THEN a ELSE b

\* (it.content || it.contentSnippet || it.description || it.summary || '')
\*   .toString().trim()
InputText(it) ==
  Trim(Or(it.content, Or(it.contentSnippet, Or(it.description, Or(it.summary, Empty)))))

ItemTitle(it) == Trim(it.title)

\* variant: the length test is missing
UseRemote_noLength(hasOpenAI, inputText) == hasOpenAI /\ inputText # Empty

\* HAS_OPENAI && inputText && inputText.length >= 100
UseRemote(hasOpenAI, inputText) ==
  hasOpenAI /\ inputText # Empty /\ StrLen(inputText) >= MIN_INPUT_LEN

\* line 579: fallbackSource = inputText || title
FallbackSource(it) == Or(InputText(it), ItemTitle(it))

\* lines 576-581: no OpenAI or input too short
LocalTier(it) ==
  [translatedTitle |-> ItemTitle(it),
   summary |-> localSummaryFromText(FallbackSource(it), 5, 8),
   tier |-> "local"]

\* lines 567-575: the remote call returned or threw
RemoteTier(it, resp) ==
  LET ai == generateOpenAISummary(ItemTitle(it), InputText(it), resp) IN
  IF ai.threw
  THEN [translatedTitle |-> ItemTitle(it),
        summary |-> localSummaryFromText(InputText(it), 5, 8),
        tier |-> "fallback"]
  ELSE [translatedTitle |-> Or(ai.titleKo, ItemTitle(it)),
        summary |-> Or(ai.summary, Empty),
        tier |-> "remote"]

\* line 588: summary = (summary || '').replace(/\n+/g, ' ').trim()
FinalSummary(summary) == Trim(NlToSpace(Or(summary, Empty)))

\* new Date(pubDate).toISOString() throws a RangeError on an invalid date;
\* a missing pubDate is replaced by the current time
DateThrows(it) == it.pubDate = "invalid"

\* lines 590-598: the record pushed to out.items
OutItem(it, r) ==
  [title |-> ItemTitle(it),
   translatedTitle |-> r.translatedTitle,
   summary |-> FinalSummary(r.summary),
   url |-> it.link,
   publishedAt |-> IF it.pubDate = "missing" THEN "now" ELSE it.pubDate]

\* ------------------------------------------------------------ configuration
Categories == <<"World", "Science", "Economy">>

SOURCES ==
  [World |-> <<"BBC World", "The Guardian", "Al Jazeera">>,
   Science |-> <<"NASA Breaking News", "ScienceDaily", "Phys.org">>,
   Economy |-> <<"CNBC Top News", "MarketWatch Top Stories", "The Economist">>]

\* category.toLowerCase()
ToLowerCase(category) ==
  CASE category = "World" -> "world"
    [] category = "Science" -> "science"
    [] category = "Economy" -> "economy"

\* ------------------------------------------------------------ error reasons
Reason(kind, code) == [kind |-> kind, code |-> code]
NoReason == Reason("none", 0)
\* `status ${res.status}`
StatusReason(code) == Reason("status", code)
\* a falsy reason: absent, or an empty message
Truthy(reason) == reason.kind \notin {"none", "empty"}
\* a || b on reasons
OrReason(a, b) == IF Truthy(a) THEN a ELSE b

\* ------------------------------------------------------------------- state
VARIABLES
  hasOpenAI,   \* HAS_OPENAI
  pc,          \* where main is suspended
  cat, src,    \* indices of the category and of the source being processed
  attempt,     \* fetchWithRetries: attempt
  lastErr,     \* fetchWithRetries: lastErr
  timer,       \* fetchWithRetries: the attempt's abort timer is armed
  fetchRes,    \* the value fetchWithRetries, then fetchAndParseRSS, returned
  rawItems,    \* processSource: feed positions still to process
  cur,         \* processSource: the item whose remote call is in flight
  out,         \* processSource: out.items
  srcError,    \* the error processSource returned, or the exception it threw
  result,      \* main: result
  file,        \* content of DATA_PATH
  exitCode,    \* process.exitCode
  free,        \* environment: this source has deviated from the plain case
  faults,      \* environment: deviations so far in this run
  lastOutcome, \* history: outcome of the latest attempt of this fetch call
  lastDone,    \* history: the item processed last, its tier, its remote calls
  onlyStatus,  \* history: every attempt of this fetch call so far ended non-2xx
  log,         \* history: the sources processSource was entered for, their fate
  v1,          \* translateAndSummarize (earlier revision) on one article
  pf,          \* the summarizers called twice on one input
  mc           \* the market-cap variant: saveMarketCapData and its files

driverVars ==
  <<hasOpenAI, pc, cat, src, attempt, lastErr, timer, fetchRes, rawItems, cur,
    out, srcError, result, file, exitCode, free, faults, lastOutcome, lastDone,
    onlyStatus, log>>
vars == <<driverVars, v1, pf, mc>>

NoFile == [written |-> FALSE]
NoItem == [none |-> TRUE]
NoRes == [kind |-> "none"]
NoOutcome == [kind |-> "none", code |-> 0]
Idle == [phase |-> "idle"]

\* the fate of a source: "running", "fetch" (status: the code when every
\* attempt ended non-2xx, else 0), "parse", "threw", "ok" (items pushed);
\* aiFailed: a remote summary call of one of its items threw (lines 571-575)
Fate(kind, status, items) == [kind |-> kind, status |-> status, items |-> items]
Entered(c, k) ==
  [cat |-> c, src |-> k, fate |-> Fate("running", 0, 0), aiFailed |-> FALSE]
SetFate(f) == log' = [log EXCEPT ![Len(log)].fate = f]

EmptyResult ==
  [categories |-> [world |-> <<>>, science |-> <<>>, economy |-> <<>>],
   errors |-> <<>>]

\* the state in which processSource(category, source) is entered
SourceStart(c, k) ==
  /\ cat' = c
  /\ src' = k
  /\ pc' = "fetch"
  /\ attempt' = 1
  /\ lastErr' = NoReason
  /\ timer' = TRUE
  /\ fetchRes' = NoRes
  /\ rawItems' = <<>>
  /\ cur' = NoItem
  /\ out' = <<>>
  /\ srcError' = NoReason
  /\ free' = FALSE
  /\ lastOutcome' = NoOutcome
  /\ lastDone' = NoItem
  /\ onlyStatus' = TRUE
  /\ log' = Append(log, Entered(c, k))

Init ==
  /\ hasOpenAI \in BOOLEAN
  /\ cat = 1 /\ src = 1 /\ pc = "fetch"
  /\ attempt = 1 /\ lastErr = NoReason /\ timer = TRUE /\ fetchRes = NoRes
  /\ rawItems = <<>> /\ cur = NoItem /\ out = <<>> /\ srcError = NoReason
  /\ result = EmptyResult
  /\ file = NoFile
  /\ exitCode = 0
  /\ free = FALSE /\ faults = 0
  /\ lastOutcome = NoOutcome /\ lastDone = NoItem
  /\ onlyStatus = TRUE /\ log = <<Entered(1, 1)>>
  /\ v1 = Idle /\ pf = Idle /\ mc = Idle

\* ------------------------------------------------------------- environment
\* A run deviates from the plain case (every fetch answers 200 at once, every
\* feed holds one plain item) at most MaxFaults times; a source that has
\* deviated once may deviate further at no cost.
Plainly == free' = free /\ faults' = faults
Deviating ==
  /\ free \/ faults < MaxFaults
  /\ free' = TRUE
  /\ faults' = IF free THEN faults ELSE faults + 1

\* outcomes of `await fetch(url, {signal})`
HeaderOutcomes ==
  {[kind |-> "response", code |-> 200], [kind |-> "response", code |-> 404],
   [kind |-> "response", code |-> 503], [kind |-> "reject", code |-> 0],
   [kind |-> "rejectEmpty", code |-> 0], [kind |-> "stall", code |-> 0]}
\* outcomes of `await res.text()`
BodyOutcomes ==
  {[kind |-> "text", code |-> 0], [kind |-> "bodyReject", code |-> 0],
   [kind |-> "bodyStall", code |-> 0]}

\* res.ok
ResOk(code) == code >= 200 /\ code <= 299

\* line 478: err.name === 'AbortError' ? 'timeout' : (err.message || String(err))
CatchReason(o) ==
  CASE o.kind = "stall" -> Reason("timeout", 0)
    [] o.kind = "bodyStall" -> Reason("timeout", 0)
    [] o.kind = "reject" -> Reason("message", 1)
    [] o.kind = "rejectEmpty" -> Reason("empty", 0)
    [] o.kind = "bodyReject" -> Reason("message", 2)

\* variant: fetchAndParseRSS reads res.reason, which fetchWithRetries never sets
FetchFailure_noError(error) == Reason("fetch failed", 0)

\* line 494 and line 551: res.error || 'fetch failed', twice
FetchFailure(error) ==
  OrReason(OrReason(error, Reason("fetch failed", 0)), Reason("fetch failed", 0))

\* ---------------------------------------------------------- fetchWithRetries
\* variant: lastErr keeps the first reason (lastErr = lastErr || reason)
AttemptFailed_firstReason(reason) ==
  LET kept == IF lastErr = NoReason THEN reason ELSE lastErr IN
  /\ lastErr' = kept
  /\ onlyStatus' = (onlyStatus /\ reason.kind = "status")
  /\ IF attempt < RETRIES + 1
     THEN /\ attempt' = attempt + 1
          /\ timer' = TRUE
          /\ pc' = "fetch"
          /\ UNCHANGED <<fetchRes, srcError, log>>
     ELSE /\ attempt' = attempt
          /\ timer' = FALSE
          /\ fetchRes' = [kind |-> "fail", error |-> kept]
          /\ srcError' = FetchFailure(kept)
          /\ pc' = "push"
          /\ SetFate(Fate("fetch", IF onlyStatus' THEN reason.code ELSE 0, 0))

\* variant: the loop runs while attempt <= RETRIES + 2
AttemptFailed_oneMore(reason) ==
  /\ lastErr' = reason
  /\ onlyStatus' = (onlyStatus /\ reason.kind = "status")
  /\ IF attempt < RETRIES + 2
     THEN /\ attempt' = attempt + 1
          /\ timer' = TRUE
          /\ pc' = "fetch"
          /\ UNCHANGED <<fetchRes, srcError, log>>
     ELSE /\ attempt' = attempt
          /\ timer' = FALSE
          /\ fetchRes' = [kind |-> "fail", error |-> reason]
          /\ srcError' = FetchFailure(reason)
          /\ pc' = "push"
          /\ SetFate(Fate("fetch", IF onlyStatus' THEN reason.code ELSE 0, 0))

\* the attempt failed with `reason`: next attempt, or return {ok: false}
\* through fetchAndParseRSS (494) and processSource (549-552)
AttemptFailed(reason) ==
  /\ lastErr' = reason
  /\ onlyStatus' = (onlyStatus /\ reason.kind = "status")
  /\ IF attempt < RETRIES + 1
     THEN /\ attempt' = attempt + 1
          /\ timer' = TRUE
          /\ pc' = "fetch"
          /\ UNCHANGED <<fetchRes, srcError, log>>
     ELSE /\ attempt' = attempt
          /\ timer' = FALSE
          /\ fetchRes' = [kind |-> "fail", error |-> reason]
          /\ srcError' = FetchFailure(reason)
          /\ pc' = "push"
          /\ SetFate(Fate("fetch", IF onlyStatus' THEN reason.code ELSE 0, 0))

\* lines 461-473, 476-480: one attempt up to the response headers
FetchHeaders ==
  /\ pc = "fetch"
  /\ \E o \in HeaderOutcomes :
       /\ IF o = [kind |-> "response", code |-> 200] /\ attempt = 1
          THEN Plainly ELSE Deviating
       /\ lastOutcome' = o
       /\ CASE o.kind = "response" /\ ResOk(o.code) ->
                 /\ timer' = FALSE
                 /\ pc' = "body"
                 /\ UNCHANGED <<attempt, lastErr, fetchRes, srcError, onlyStatus, log>>
            [] o.kind = "response" /\ ~ResOk(o.code) ->
                 AttemptFailed(StatusReason(o.code))
            [] o.kind \in {"reject", "rejectEmpty"} ->
                 AttemptFailed(CatchReason(o))
            [] o.kind = "stall" ->
                 IF timer THEN AttemptFailed(CatchReason(o))
                 ELSE /\ pc' = "hung"
                      /\ UNCHANGED <<attempt, lastErr, timer, fetchRes, srcError,
                                     onlyStatus, log>>
  /\ UNCHANGED <<hasOpenAI, cat, src, rawItems, cur, out, result, file,
                 exitCode, lastDone, v1, pf, mc>>

\* lines 474-475, 476-480: reading the body of a 2xx response
ReadBody ==
  /\ pc = "body"
  /\ \E o \in BodyOutcomes :
       /\ IF o.kind = "text" THEN Plainly ELSE Deviating
       /\ CASE o.kind = "text" ->
                 /\ fetchRes' = [kind |-> "ok", status |-> lastOutcome.code]
                 /\ pc' = "parse"
                 /\ UNCHANGED <<attempt, lastErr, timer, srcError, lastOutcome,
                                onlyStatus, log>>
            [] o.kind = "bodyReject" ->
                 /\ lastOutcome' = o
                 /\ AttemptFailed(CatchReason(o))
            [] o.kind = "bodyStall" ->
                 IF timer
                 THEN /\ lastOutcome' = o
                      /\ AttemptFailed(CatchReason(o))
                 ELSE /\ pc' = "hung"
                      /\ UNCHANGED <<attempt, lastErr, timer, fetchRes, srcError,
                                     lastOutcome, onlyStatus, log>>
  /\ UNCHANGED <<hasOpenAI, cat, src, rawItems, cur, out, result, file,
                 exitCode, lastDone, v1, pf, mc>>

\* ----------------------------------------------------------- fetchAndParseRSS
\* outcomes of parser.parseString: a feed of n items, or a rejection
ParseOutcomes ==
  {[kind |-> "feed", n |-> n] : n \in 0..MaxFeed}
    \cup {[kind |-> "parseReject", n |-> 0], [kind |-> "parseRejectEmpty", n |-> 0]}

\* feed.items.slice(0, ITEMS_PER_SOURCE), as feed positions
RECURSIVE Iota(_)
Iota(n) == IF n <= 0 THEN <<>> ELSE Append(Iota(n - 1), n)
\* variant: the feed's items are taken without the cap
Truncated_noCap(n) == Iota(n)

Truncated(n) == Iota(Min2(n, ITEMS_PER_SOURCE))

\* line 501 and line 551
ParseFailure(o) ==
  OrReason(IF o.kind = "parseReject" THEN Reason("message", 3) ELSE Reason("empty", 0),
           Reason("fetch failed", 0))

\* lines 496-502, 549-554
ParseFeed ==
  /\ pc = "parse"
  /\ \E o \in ParseOutcomes :
       /\ IF o = [kind |-> "feed", n |-> 1] THEN Plainly ELSE Deviating
       /\ IF o.kind = "feed"
          THEN /\ rawItems' = Truncated(o.n)
               /\ fetchRes' = [kind |-> "ok", status |-> fetchRes.status, feed |-> o.n]
               /\ pc' = IF o.n = 0 THEN "push" ELSE "item"
               /\ srcError' = NoReason
               /\ IF o.n = 0 THEN SetFate(Fate("ok", 0, 0)) ELSE log' = log
          ELSE /\ rawItems' = <<>>
               /\ fetchRes' = fetchRes
               /\ pc' = "push"
               /\ srcError' = ParseFailure(o)
               /\ SetFate(Fate("parse", 0, 0))
  /\ UNCHANGED <<hasOpenAI, cat, src, attempt, lastErr, timer, cur,
                 out, result, file, exitCode, lastOutcome, lastDone, onlyStatus,
                 v1, pf, mc>>

\* -------------------------------------------------------------- input pools
Short == Lit(2) \o Ch("sp") \o Lit(3) \o Ch(".")
Long == Lit(60) \o Ch(".") \o Ch("sp") \o Lit(60) \o Ch(".")
Long99 == Lit(98) \o Ch(".")
Long100 == Lit(99) \o Ch(".")
LongNl == Lit(60) \o <<Run("nl", 2)>> \o Lit(60)
LongPadded == <<Run("sp", 50)>> \o Lit(60) \o <<Run("sp", 50)>>
WsOnly == <<Run("sp", 2)>>
Markup == Ch("<") \o Lit(1) \o Ch(">")

Item(content, contentSnippet, description, summary, title, pubDate) ==
  [content |-> content, contentSnippet |-> contentSnippet,
   description |-> description, summary |-> summary, title |-> title,
   pubDate |-> pubDate, link |-> 0]

PlainItem == Item(Short, Empty, Empty, Empty, Lit(4), "valid")

\* the items the driver's feeds are made of
DriverItems ==
  {PlainItem,
   Item(Long, Empty, Empty, Empty, Lit(4), "valid"),
   Item(LongNl, Empty, Empty, Empty, Lit(4), "invalid"),
   Item(Empty, Empty, Empty, Empty, Empty, "missing"),
   Item(Short, Empty, Empty, Empty, Lit(4), "invalid")}

\* the items a single call is checked on
AllItems ==
  {Item(c, cs, d, sm, t, p) :
     c \in {Empty, WsOnly, Short, Long99, Long100, LongNl, LongPadded, Markup},
     cs \in {Empty, Short, Long},
     d \in {Empty, Long},
     sm \in {Empty, Short},
     t \in {Empty, WsOnly, Lit(4)},
     p \in {"valid", "missing", "invalid"}}

Content(content, titleKo, summary, strings) ==
  [kind |-> "content", content |-> content, titleKo |-> titleKo,
   summary |-> summary, strings |-> strings]
NoResp ==
  [kind |-> "none", content |-> Empty, titleKo |-> Empty, summary |-> Empty,
   strings |-> TRUE]
RequestError ==
  [kind |-> "error", content |-> Empty, titleKo |-> Empty, summary |-> Empty,
   strings |-> TRUE]

StrictJson == Ch("{") \o Ch("J") \o Ch("}")
GoodSummary == Lit(5) \o Ch("sp") \o Lit(3) \o Ch(".")

DriverResps ==
  {RequestError,
   Content(StrictJson, Lit(3), GoodSummary, TRUE),
   Content(Lit(6), Empty, Empty, TRUE),
   Content(WsOnly, Empty, Empty, TRUE)}

AllResps ==
  {RequestError}
    \cup {Content(c, Empty, Empty, TRUE) :
            c \in {Empty, WsOnly, Ch("nl"), Lit(6), Lit(3) \o Ch("nl") \o Lit(3),
                   Lit(3) \o Ch("."), Ch("{") \o Ch("}"), Ch("{"),
                   Ch("{") \o Lit(2) \o Ch("}")}}
    \cup {Content(c, t, sm, st) :
            c \in {StrictJson, Ch("nl") \o StrictJson \o Ch("sp"),
                   Lit(2) \o StrictJson \o Lit(2),
                   Lit(2) \o StrictJson \o Ch("}"),
                   StrictJson \o Lit(1) \o Ch("{") \o Ch("}")},
            t \in {Empty, Lit(3), Ch("sp") \o Lit(3)},
            sm \in {Empty, WsOnly, Ch("nl"), GoodSummary, Lit(3),
                    Lit(3) \o <<Run("nl", 2)>> \o Lit(3) \o Ch("!")},
            st \in BOOLEAN}

\* ------------------------------------------------ processSource: item loop
\* lines 587-598 for the item `it` summarized as r, then the loop goes on:
\* the date conversion throws out of processSource, or the item is pushed
FinishItem(it, r, resp) ==
  /\ lastDone' = [it |-> it, tier |-> r.tier, resp |-> resp,
                  net |-> IF resp = NoResp THEN 0 ELSE 1,
                  threw |-> DateThrows(it)]
  /\ cur' = NoItem
  /\ LET failed == log[Len(log)].aiFailed \/ r.tier = "fallback"
         fate == IF DateThrows(it) THEN Fate("threw", 0, 0)
                 ELSE IF Len(rawItems) = 1 THEN Fate("ok", 0, Len(out) + 1)
                 ELSE log[Len(log)].fate
     IN log' = [log EXCEPT ![Len(log)].fate = fate, ![Len(log)].aiFailed = failed]
  /\ IF DateThrows(it)
     THEN /\ pc' = "catch"
          /\ srcError' = Reason("message", 4)
          /\ UNCHANGED <<out, rawItems>>
     ELSE /\ out' = Append(out, OutItem(it, r))
          /\ rawItems' = Tail(rawItems)
          /\ pc' = IF Len(rawItems) = 1 THEN "push" ELSE "item"
          /\ srcError' = NoReason

\* lines 555-566, 576-581: the next item, up to the remote call if one is made
ProcessItemStart(pool) ==
  /\ pc = "item"
  /\ rawItems # <<>>
  /\ \E i \in pool :
       LET it == [i EXCEPT !.link = Head(rawItems)] IN
       /\ IF i = PlainItem THEN Plainly
          ELSE faults < MaxFaults /\ faults' = faults + 1 /\ free' = free
       /\ IF UseRemote(hasOpenAI, InputText(it))
          THEN /\ cur' = it
               /\ pc' = "remote"
               /\ UNCHANGED <<out, rawItems, srcError, lastDone, log>>
          ELSE FinishItem(it, LocalTier(it), NoResp)
  /\ UNCHANGED <<hasOpenAI, cat, src, attempt, lastErr, timer, fetchRes, result,
                 file, exitCode, lastOutcome, onlyStatus, v1, pf, mc>>

\* lines 567-575: openai.chat.completions.create settles
ProcessItemRemote(pool) ==
  /\ pc = "remote"
  /\ \E resp \in pool : FinishItem(cur, RemoteTier(cur, resp), resp)
  /\ UNCHANGED <<hasOpenAI, cat, src, attempt, lastErr, timer, fetchRes, result,
                 file, exitCode, free, faults, lastOutcome, onlyStatus, v1, pf, mc>>

\* ---------------------------------------------------------------------- main
Entry(source, items, error) == [source |-> source, items |-> items, error |-> error]
ErrorRecord(category, source, reason) ==
  [category |-> category, source |-> source, reason |-> reason]

\* lines 631-635: pad the category with placeholders
RECURSIVE PadCategory(_, _)
PadCategory(list, sources) ==
  IF Len(list) >= Len(sources) THEN list
  ELSE PadCategory(Append(list, Entry(sources[Len(list) + 1], <<>>, Reason("no data", 0))),
                   sources)

\* variant: a source that ended in an error ends its category's loop (break)
Advance_breakOnError(res) ==
  LET category == Categories[cat]
      key == ToLowerCase(category)
      sources == SOURCES[category]
      padded == [res EXCEPT !.categories[key] = PadCategory(@, sources)]
  IN IF src < Len(sources) /\ ~Truthy(srcError)
     THEN result' = res /\ SourceStart(cat, src + 1)
     ELSE /\ result' = padded
          /\ IF cat < Len(Categories)
             THEN SourceStart(cat + 1, 1)
             ELSE /\ pc' = "write"
                  /\ UNCHANGED <<cat, src, attempt, lastErr, timer, fetchRes,
                                 rawItems, cur, out, srcError, free,
                                 lastOutcome, lastDone, onlyStatus, log>>

\* variant: the file is written as soon as a category is complete
Advance_writePerCategory(res) ==
  LET category == Categories[cat]
      key == ToLowerCase(category)
      sources == SOURCES[category]
      padded == [res EXCEPT !.categories[key] = PadCategory(@, sources)]
  IN IF src < Len(sources)
     THEN result' = res /\ SourceStart(cat, src + 1)
     ELSE /\ result' = padded
          /\ pc' = "write"
          /\ UNCHANGED <<cat, src, attempt, lastErr, timer, fetchRes,
                         rawItems, cur, out, srcError, free,
                         lastOutcome, lastDone, onlyStatus, log>>

\* the for loops of lines 609-636 step to the next source, the next category
\* (after padding this one) or the write
Advance(res) ==
  LET category == Categories[cat]
      key == ToLowerCase(category)
      sources == SOURCES[category]
      padded == [res EXCEPT !.categories[key] = PadCategory(@, sources)]
  IN IF src < Len(sources)
     THEN result' = res /\ SourceStart(cat, src + 1)
     ELSE /\ result' = padded
          /\ IF cat < Len(Categories)
             THEN SourceStart(cat + 1, 1)
             ELSE /\ pc' = "write"
                  /\ UNCHANGED <<cat, src, attempt, lastErr, timer, fetchRes,
                                 rawItems, cur, out, srcError, free,
                                 lastOutcome, lastDone, onlyStatus, log>>

\* variant: the error record is pushed to the category instead of the errors list
Pushed_errorToCategory(res, key, source, items, error) ==
  LET entry == Entry(source, items, IF Truthy(error) THEN error ELSE NoReason)
      pushed == [res EXCEPT !.categories[key] = Append(@, entry)]
  IN IF Truthy(error)
     THEN [pushed EXCEPT !.categories[key] =
             Append(@, Entry(source, <<>>, error))]
     ELSE pushed

\* lines 616-620: `res` after the entry, and the error record if any, is pushed
Pushed(res, key, source, items, error) ==
  LET entry == Entry(source, items, IF Truthy(error) THEN error ELSE NoReason)
      pushed == [res EXCEPT !.categories[key] = Append(@, entry)]
  IN IF Truthy(error)
     THEN [pushed EXCEPT !.errors = Append(@, ErrorRecord(key, source, error))]
     ELSE pushed

\* lines 614-622: processSource returned {out, count, error}
MainPush ==
  /\ pc = "push"
  /\ LET category == Categories[cat]
         key == ToLowerCase(category)
         source == SOURCES[category][src]
     IN Advance(Pushed(result, key, source, out, srcError))
  /\ UNCHANGED <<hasOpenAI, file, exitCode, faults, v1, pf, mc>>

\* lines 623-628: processSource threw
MainCatch ==
  /\ pc = "catch"
  /\ LET category == Categories[cat]
         key == ToLowerCase(category)
         source == SOURCES[category][src]
         pushed == [result EXCEPT
                      !.categories[key] = Append(@, Entry(source, <<>>, srcError)),
                      !.errors = Append(@, ErrorRecord(key, source, srcError))]
     IN Advance(pushed)
  /\ UNCHANGED <<hasOpenAI, file, exitCode, faults, v1, pf, mc>>

\* variant: a failed write is logged and the exit code left alone
WriteFile_exitCodeUnset ==
  /\ pc = "write"
  /\ \E ok \in BOOLEAN :
       IF ok
       THEN file' = [written |-> TRUE, data |-> result] /\ exitCode' = exitCode
       ELSE file' = file /\ exitCode' = exitCode
  /\ pc' = "done"
  /\ UNCHANGED <<hasOpenAI, cat, src, attempt, lastErr, timer, fetchRes, rawItems,
                 cur, out, srcError, result, free, faults, lastOutcome, lastDone,
                 onlyStatus, log, v1, pf, mc>>

\* lines 638-648: fs.writeFileSync succeeds or throws
WriteFile ==
  /\ pc = "write"
  /\ \E ok \in BOOLEAN :
       IF ok
       THEN file' = [written |-> TRUE, data |-> result] /\ exitCode' = exitCode
       ELSE file' = file /\ exitCode' = 2
  /\ pc' = "done"
  /\ UNCHANGED <<hasOpenAI, cat, src, attempt, lastErr, timer, fetchRes, rawItems,
                 cur, out, srcError, result, free, faults, lastOutcome, lastDone,
                 onlyStatus, log, v1, pf, mc>>

Next ==
  \/ FetchHeaders
  \/ ReadBody
  \/ ParseFeed
  \/ ProcessItemStart(DriverItems)
  \/ ProcessItemRemote(DriverResps)
  \/ MainPush
  \/ MainCatch
  \/ WriteFile

Spec == Init /\ [][Next]_vars

\* ------------------------------------- earlier revision: translateAndSummarize
\* generateFallbackSummary, lines 251-279
generateFallbackSummary(text) ==
  LET cleanText == Slice(Trim(StripTags(text)), CLEAN_LIMIT)
      all == Sentences(cleanText)
      sentences == SubSeq(all, 1, Min2(8, Len(all)))
      summary == Trim(Join(sentences, Ch("sp")))
  IN IF Len(sentences) = 0 THEN TITLE_DEFAULT
     ELSE IF EndsWithDot(summary) THEN summary ELSE summary \o Ch(".")

\* lines 77-85: the article built from a feed item; 'No title'
NO_TITLE == Lit(2) \o Ch("sp") \o Lit(5)
Article(it) ==
  [title |-> Or(it.title, NO_TITLE),
   description |-> Or(it.description, Or(it.summary, Empty)),
   content |-> it.content,
   contentSnippet |-> it.contentSnippet]

\* line 147
ArticleInput(article) ==
  Trim(Or(article.content, Or(article.contentSnippet, Or(article.description, Empty))))

\* line 150: !inputText || inputText.length < 100
TooShort(inputText) == inputText = Empty \/ StrLen(inputText) < MIN_INPUT_LEN

\* lines 150-165: the answer given without a request, or "remote"
TSDecision(article, hasApiKey) ==
  IF TooShort(ArticleInput(article)) THEN "title"
  ELSE IF ~hasApiKey THEN "fallback"
  ELSE "remote"

\* lines 223-244: the request settled with resp
TSRemoteResult(article, resp) ==
  LET inputText == Trim(StripTags(ArticleInput(article)))
      caught == [titleKo |-> article.title,
                 summary |-> generateFallbackSummary(
                               Or(inputText, Or(article.description, article.title))),
                 tier |-> "fallback"]
      parsed == IF resp.kind = "error" THEN "fail" ELSE ParseJson(resp.content)
  IN IF parsed = "fail" THEN caught
     ELSE IF parsed = "obj" /\ resp.summary # Empty /\ ~resp.strings THEN caught
     ELSE [titleKo |-> IF parsed = "obj" THEN Or(resp.titleKo, article.title)
                       ELSE article.title,
           summary |-> IF parsed = "obj" /\ resp.summary # Empty
                       THEN NlToSpace(Trim(resp.summary))
                       ELSE NlToSpace(Trim(generateFallbackSummary(inputText))),
           tier |-> IF parsed = "obj" /\ resp.summary # Empty
                    THEN "remote" ELSE "fallback"]

\* lines 143-165: translateAndSummarize up to its first await
TSStart ==
  /\ v1.phase = "start"
  /\ \E it \in AllItems, rnd \in 0..3 :
       LET article == Article(it)
           d == TSDecision(article, hasOpenAI)
       IN v1' = CASE d = "title" ->
                       [phase |-> "done", article |-> article, net |-> 0,
                        titleKo |-> article.title, tier |-> "title",
                        summary |-> generateTitleBasedSummary(
                                      Or(article.title, Or(article.description, Empty)),
                                      rnd)]
                  [] d = "fallback" ->
                       [phase |-> "done", article |-> article, net |-> 0,
                        titleKo |-> article.title, tier |-> "fallback",
                        summary |-> generateFallbackSummary(
                                      Or(ArticleInput(article),
                                         Or(article.description, article.title)))]
                  [] d = "remote" ->
                       [phase |-> "remote", article |-> article, net |-> 1,
                        titleKo |-> Empty, tier |-> "pending", summary |-> Empty]
  /\ UNCHANGED <<driverVars, pf, mc>>

\* lines 176-244: openai.chat.completions.create settles
TSRemote ==
  /\ v1.phase = "remote"
  /\ \E resp \in AllResps :
       LET r == TSRemoteResult(v1.article, resp) IN
       v1' = [v1 EXCEPT !.phase = "done", !.titleKo = r.titleKo,
                        !.summary = r.summary, !.tier = r.tier]
  /\ UNCHANGED <<driverVars, pf, mc>>

\* one item through processSource, or one article through translateAndSummarize
InitItem ==
  /\ hasOpenAI \in BOOLEAN
  /\ cat = 1 /\ src = 1
  /\ attempt = 1 /\ lastErr = NoReason /\ timer = FALSE
  /\ fetchRes = [kind |-> "ok", status |-> 200, feed |-> 1]
  /\ cur = NoItem /\ out = <<>> /\ srcError = NoReason
  /\ result = EmptyResult
  /\ file = NoFile
  /\ exitCode = 0
  /\ free = FALSE /\ faults = 0
  /\ lastOutcome = [kind |-> "response", code |-> 200] /\ lastDone = NoItem
  /\ onlyStatus = TRUE /\ log = <<Entered(1, 1)>>
  /\ pf = Idle /\ mc = Idle
  /\ \/ pc = "item" /\ rawItems = <<1>> /\ v1 = Idle
     \/ pc = "idle" /\ rawItems = <<>> /\ v1 = [phase |-> "start"]

NextItem ==
  \/ ProcessItemStart(AllItems)
  \/ ProcessItemRemote(AllResps)
  \/ TSStart
  \/ TSRemote

SpecItem == InitItem /\ [][NextItem]_vars

\* ------------------------------------------- the local summarizers, called twice
Alphabet == {"a", ".", "sp", "<", ">"}

RECURSIVE TextsOfLen(_)
TextsOfLen(k) ==
  IF k = 0 THEN {<<>>}
  ELSE {Append(t, Run(c, 1)) : t \in TextsOfLen(k - 1), c \in Alphabet}

ShortTexts == UNION {TextsOfLen(k) : k \in 0..MaxRuns}

LongTexts ==
  {Lit(LongRun) \o Ch(".") \o Lit(LongRun) \o Ch("!") \o Lit(3),
   Lit(LongRun) \o Ch("?") \o Lit(LongRun - 102) \o Ch(".") \o Lit(3),
   Lit(3) \o <<Run("!", 2)>> \o Ch("nl") \o Lit(2) \o Ch("?") \o Lit(1) \o Ch(".")
     \o Lit(4) \o Ch("?"),
   <<Run("nl", 2)>>,
   <<Run(".", 3)>>,
   Lit(2) \o <<Run("sp", 3)>> \o Ch("nl") \o Lit(2)}

Texts == ShortTexts \cup LongTexts

Bands == {b \in (1..MaxBand) \X (1..MaxBand) : b[1] <= b[2]}

InitLocal ==
  /\ hasOpenAI = FALSE
  /\ cat = 1 /\ src = 1 /\ pc = "idle"
  /\ attempt = 1 /\ lastErr = NoReason /\ timer = FALSE /\ fetchRes = NoRes
  /\ rawItems = <<>> /\ cur = NoItem /\ out = <<>> /\ srcError = NoReason
  /\ result = EmptyResult
  /\ file = NoFile
  /\ exitCode = 0
  /\ free = FALSE /\ faults = 0
  /\ lastOutcome = NoOutcome /\ lastDone = NoItem
  /\ onlyStatus = TRUE /\ log = <<>>
  /\ v1 = Idle /\ mc = Idle
  /\ \/ \E t \in Texts, b \in Bands :
          pf = [phase |-> "local", text |-> t, minSentences |-> b[1],
                maxSentences |-> b[2], outs |-> <<>>]
     \/ \E t \in Texts :
          pf = [phase |-> "title", text |-> t, minSentences |-> 0,
                maxSentences |-> 0, outs |-> <<>>]

\* localSummaryFromText(text, minSentences, maxSentences), at most twice
CallLocalSummary ==
  /\ pf.phase = "local"
  /\ Len(pf.outs) < 2
  /\ pf' = [pf EXCEPT !.outs =
              Append(@, localSummaryFromText(pf.text, pf.minSentences, pf.maxSentences))]
  /\ UNCHANGED <<driverVars, v1, mc>>

\* generateTitleBasedSummary(title), at most twice
CallTitleSummary ==
  /\ pf.phase = "title"
  /\ Len(pf.outs) < 2
  /\ \E rnd \in 0..3 :
       pf' = [pf EXCEPT !.outs = Append(@, generateTitleBasedSummary(pf.text, rnd))]
  /\ UNCHANGED <<driverVars, v1, mc>>

NextLocal == CallLocalSummary \/ CallTitleSummary

SpecLocal == InitLocal /\ [][NextLocal]_vars

\* ------------------------------ market-cap variant: unnamed/part_001, 340-533
\* A company entry is [rank, company]; a company name is <<origin, id>>: the
\* row of the page it was read from, or its place in a default list.
Company(rank, origin, id) == [rank |-> rank, company |-> <<origin, id>>]

RECURSIVE DefaultList(_, _)
DefaultList(origin, n) ==
  IF n = 0 THEN <<>>
  ELSE Append(DefaultList(origin, n - 1), Company(n, origin, n))

DEFAULT_KR == DefaultList("DEFAULT_KR", TOP_N)
DEFAULT_US == DefaultList("DEFAULT_US", TOP_N)

\* A table row of a scraped page: "valid" (cells and a company name),
\* "fewcells" (fewer than two cells), "blank" (no text), "short" (a name of at
\* most 2 characters), "index" (a name starting with ^ or &), "numeric" (digits
\* and punctuation only), "header" (Rank, Company, Price, ...).
Row(kind, id) == [kind |-> kind, id |-> id]
BadKinds == {"fewcells", "blank", "short", "index", "numeric", "header"}

\* lines 395-399: cells.length > 1 and a non-empty text
KRValid(row) == row.kind \notin {"fewcells", "blank"}

\* lines 440-458: the validation of a company name
USValid(row) == row.kind = "valid"

\* variant: any non-empty extraction counts as success
Enough_any(companies) == Len(companies) >= 1

\* lines 405 and 474: companies.length >= 10
Enough(companies) == Len(companies) >= TOP_N

\* lines 393-403: $('table tbody tr').slice(0, 10).each(...), rank = idx + 1
RECURSIVE KoreanRows(_, _, _)
KoreanRows(rows, idx, companies) ==
  IF idx > Min2(Len(rows), TOP_N) THEN companies
  ELSE KoreanRows(rows, idx + 1,
                  IF KRValid(rows[idx])
                  THEN Append(companies, Company(idx, "row", rows[idx].id))
                  ELSE companies)

\* lines 436-466: each row until 10 companies are held, rank = length + 1
RECURSIVE USRows(_, _, _)
USRows(rows, idx, companies) ==
  IF idx > Len(rows) THEN companies
  ELSE USRows(rows, idx + 1,
              IF Len(companies) < TOP_N /\ USValid(rows[idx])
              THEN Append(companies, Company(Len(companies) + 1, "row", rows[idx].id))
              ELSE companies)

\* the answer of axios.get: a page of rows, or a rejection (timeout, status,
\* network error)
Page(rows) == [kind |-> "page", rows |-> rows]
Rejected == [kind |-> "reject", rows |-> <<>>]

\* lines 378-415
fetchKoreanMarketCap(resp) ==
  IF resp.kind = "reject" THEN DEFAULT_KR
  ELSE LET companies == KoreanRows(resp.rows, 1, <<>>) IN
       IF Enough(companies)
       THEN SubSeq(companies, 1, Min2(Len(companies), TOP_N))
       ELSE DEFAULT_KR

\* line 469: a held name starts with ^ or &
HasIndexSymbols(rows, companies) ==
  \E i \in DOMAIN companies :
    \E j \in DOMAIN rows :
      rows[j].id = companies[i].company[2] /\ rows[j].kind = "index"

\* lines 420-486: every throw inside the try ends in the default list
fetchUSMarketCap(resp) ==
  IF resp.kind = "reject" THEN DEFAULT_US
  ELSE LET companies == USRows(resp.rows, 1, <<>>) IN
       IF HasIndexSymbols(resp.rows, companies) THEN DEFAULT_US
       ELSE IF Enough(companies)
            THEN SubSeq(companies, 1, Min2(Len(companies), TOP_N))
            ELSE DEFAULT_US

\* pages: n valid rows, or n rows of which one is not valid
RECURSIVE ValidRows(_)
ValidRows(n) == IF n = 0 THEN <<>> ELSE Append(ValidRows(n - 1), Row("valid", n))
CleanPages == {Page(ValidRows(n)) : n \in 0..MaxRows}
SpoiltPages ==
  UNION {{Page([ValidRows(n) EXCEPT ![p] = Row(k, p)]) : p \in 1..n, k \in BadKinds}
           : n \in 1..MaxRows}
Responses == CleanPages \cup SpoiltPages \cup {Rejected}

\* the answer holds 10 rows the scraper can use (history only): among the
\* first 10 rows for the Korean page, among all rows for the US page
KRUsable(resp) ==
  Cardinality({j \in 1..Min2(Len(resp.rows), TOP_N) : KRValid(resp.rows[j])}) >= TOP_N
USUsable(resp) ==
  Cardinality({j \in DOMAIN resp.rows : USValid(resp.rows[j])}) >= TOP_N

\* file contents: the JSON text of outputData, or no file
Output(updatedAt, kr, us) == [updatedAt |-> updatedAt, KR |-> kr, US |-> us]
Absent == Output(-1, <<>>, <<>>)
Exists(content) == content # Absent
OldOutput == Output(0, DEFAULT_KR, DEFAULT_US)
StaleOutput == Output(0, DEFAULT_US, DEFAULT_KR)

\* variant: the backup copy is not made
PrevAfterBackup_noCopy(data, prev) == prev

\* lines 509-514: the .prev file after the backup step
PrevAfterBackup(data, prev) == IF Exists(data) THEN data ELSE prev

\* a run of the script starts (line 533)
MarketRun(run, bad, data, prev) ==
  [phase |-> "kr", run |-> run, bad |-> bad, kr |-> <<>>, us |-> <<>>,
   krUsable |-> FALSE, usUsable |-> FALSE,
   data |-> data, prev |-> prev, atStart |-> data, prevAtStart |-> prev,
   exit |-> -1, wrote |-> FALSE, fault |-> "none"]

InitMarket ==
  /\ hasOpenAI = FALSE
  /\ cat = 1 /\ src = 1 /\ pc = "idle"
  /\ attempt = 1 /\ lastErr = NoReason /\ timer = FALSE /\ fetchRes = NoRes
  /\ rawItems = <<>> /\ cur = NoItem /\ out = <<>> /\ srcError = NoReason
  /\ result = EmptyResult
  /\ file = NoFile
  /\ exitCode = 0
  /\ free = FALSE /\ faults = 0
  /\ lastOutcome = NoOutcome /\ lastDone = NoItem
  /\ onlyStatus = TRUE /\ log = <<>>
  /\ v1 = Idle /\ pf = Idle
  /\ \E data \in {Absent, OldOutput}, prev \in {Absent, StaleOutput} :
       mc = MarketRun(1, 0, data, prev)

\* the rows of a page that are not "valid" are counted against MaxBadRows
Spoilt(resp) == IF resp \in SpoiltPages THEN 1 ELSE 0

\* line 493: await fetchKoreanMarketCap()
FetchKorean ==
  /\ mc.phase = "kr"
  /\ \E resp \in Responses :
       /\ mc.bad + Spoilt(resp) <= MaxBadRows
       /\ mc' = [mc EXCEPT !.phase = "us",
                           !.bad = @ + Spoilt(resp),
                           !.kr = fetchKoreanMarketCap(resp),
                           !.krUsable = KRUsable(resp)]
  /\ UNCHANGED <<driverVars, v1, pf>>

\* line 494: await fetchUSMarketCap()
FetchUS ==
  /\ mc.phase = "us"
  /\ \E resp \in Responses :
       /\ mc.bad + Spoilt(resp) <= MaxBadRows
       /\ mc' = [mc EXCEPT !.phase = "save",
                           !.bad = @ + Spoilt(resp),
                           !.us = fetchUSMarketCap(resp),
                           !.usUsable = USUsable(resp)]
  /\ UNCHANGED <<driverVars, v1, pf>>

\* what the file system calls of lines 503-517 do: all succeed, or one throws
FsOutcomes == {"ok", "mkdir", "read", "writePrev", "write"}

\* lines 496-529: build the output, back up the existing file, write, exit
SaveFiles ==
  /\ mc.phase = "save"
  /\ \E f \in FsOutcomes :
       /\ f = "mkdir" => ~Exists(mc.data)
       /\ f \in {"read", "writePrev"} => Exists(mc.data)
       /\ mc' = [mc EXCEPT
                   !.phase = "exited",
                   !.fault = f,
                   !.prev = IF f \in {"ok", "write"}
                            THEN PrevAfterBackup(mc.data, mc.prev) ELSE @,
                   !.data = IF f = "ok" THEN Output(mc.run, mc.kr, mc.us) ELSE @,
                   !.wrote = (f = "ok"),
                   !.exit = IF f = "ok" THEN 0 ELSE 1]
  /\ UNCHANGED <<driverVars, v1, pf>>

\* the script is run again on the files the run before left
NextRun ==
  /\ mc.phase = "exited"
  /\ mc.run < MaxMarketRuns
  /\ mc' = MarketRun(mc.run + 1, mc.bad, mc.data, mc.prev)
  /\ UNCHANGED <<driverVars, v1, pf>>

NextMarket ==
  \/ FetchKorean
  \/ FetchUS
  \/ SaveFiles
  \/ NextRun

SpecMarket == InitMarket /\ [][NextMarket]_vars

\* the driver or the market-cap script, to the end of the process
InitAny == Init \/ InitMarket
NextAny == Next \/ NextMarket
SpecAny == InitAny /\ [][NextAny]_vars

\* ===================================================================== claims
KeyOf(c) == ToLowerCase(Categories[c])
Configured(c) == SOURCES[Categories[c]]
\* the entry of log[i]'s source in the result `res`, once it is there
HasEntry(res, i) == Len(res.categories[KeyOf(log[i].cat)]) >= log[i].src
EntryOf(res, i) == res.categories[KeyOf(log[i].cat)][log[i].src]
Finished == pc \in {"write", "done"}

\* C1: in every output written by a run, each category holds exactly as many
\* source entries as it has configured sources, whatever failed during the run.
C1_Cardinality ==
  /\ file.written =>
       \A c \in DOMAIN Categories :
         Len(file.data.categories[KeyOf(c)]) = Len(Configured(c))
  /\ Finished =>
       \A c \in DOMAIN Categories :
         Len(result.categories[KeyOf(c)]) = Len(Configured(c))

\* a written output of a run in which processSource threw
C1_Witness ==
  /\ file.written
  /\ \E i \in DOMAIN log : log[i].fate.kind = "threw"

\* the reason a failed attempt is expected to record
ReasonRecorded(o) ==
  CASE o.kind = "response" -> Reason("status", o.code)
    [] o.kind \in {"stall", "bodyStall"} -> Reason("timeout", 0)
    [] o.kind = "reject" -> Reason("message", 1)
    [] o.kind = "bodyReject" -> Reason("message", 2)
    [] o.kind = "rejectEmpty" -> Reason("empty", 0)
    [] OTHER -> NoReason

\* C2: fetchWithRetries returns {ok: true, status, text} or {ok: false, error}
\* and throws nothing: an exception reaches main only after the fetch returned
\* ok; a failure is returned only after the last attempt, with the reason that
\* attempt recorded.
C2_FetchNeverThrows ==
  /\ fetchRes.kind \in {"none", "ok", "fail"}
  /\ pc \in {"parse", "item", "remote", "catch"} =>
       fetchRes.kind = "ok" /\ ResOk(fetchRes.status)
  /\ fetchRes.kind = "fail" =>
       /\ attempt = RETRIES + 1
       /\ ~(lastOutcome.kind = "response" /\ ResOk(lastOutcome.code))
       /\ fetchRes.error = ReasonRecorded(lastOutcome)

\* every attempt failed, the last one while reading the body of a 2xx response
C2_Witness ==
  /\ fetchRes.kind = "fail"
  /\ lastOutcome.kind = "bodyReject"
  /\ pc = "push"

\* C3: a source whose every attempt returned a non-2xx status, code c on the
\* last one, gets the entry {items: [], error: "status c"}; the run goes on to
\* the next source and the written output holds that entry.
C3_StatusEntry ==
  /\ \A i \in DOMAIN log :
       (log[i].fate.kind = "fetch" /\ log[i].fate.status # 0) =>
         LET expected == Entry(Configured(log[i].cat)[log[i].src], <<>>,
                               Reason("status", log[i].fate.status))
         IN /\ (i < Len(log) \/ Finished) => HasEntry(result, i)
            /\ HasEntry(result, i) => EntryOf(result, i) = expected
            /\ file.written => EntryOf(file.data, i) = expected
  /\ (pc = "done" /\ exitCode = 0) => file.written

\* the output is written with the entry of a source that answered 503 throughout
C3_Witness ==
  /\ file.written
  /\ pc = "done"
  /\ \E i \in DOMAIN log : log[i].fate.kind = "fetch" /\ log[i].fate.status = 503

\* the source processed after <<c, k>> in configured order
NextSource(c, k) == IF k < Len(Configured(c)) THEN <<c, k + 1>> ELSE <<c + 1, 1>>

\* C4: a fetch or parse failure of a source leaves an entry with no items and
\* an error reason, and the sources are processed one by one in configured
\* order, each exactly once, up to the last one before the write.
C4_FailureDoesNotAbort ==
  /\ Len(log) > 0 => <<log[1].cat, log[1].src>> = <<1, 1>>
  /\ \A i \in DOMAIN log :
       /\ i > 1 => <<log[i].cat, log[i].src>> = NextSource(log[i - 1].cat, log[i - 1].src)
       /\ (i < Len(log) \/ Finished) => HasEntry(result, i)
       /\ (HasEntry(result, i) /\ log[i].fate.kind \in {"fetch", "parse"}) =>
            /\ EntryOf(result, i).source = Configured(log[i].cat)[log[i].src]
            /\ EntryOf(result, i).items = <<>>
            /\ Truthy(EntryOf(result, i).error)
  /\ Finished =>
       /\ Len(log) > 0
       /\ log[Len(log)].cat = Len(Categories)
       /\ log[Len(log)].src = Len(Configured(Len(Categories)))
  /\ file.written => file.data = result

\* the first source failed to parse and the run reached the write
C4_Witness ==
  /\ file.written
  /\ log[1].fate.kind = "parse"
  /\ log[Len(log)].fate.kind = "ok"

\* C5: every item processSource pushes has a non-empty summary, whichever tier
\* produced it and whatever the remote response holds.
C5_SummaryNonEmpty == \A i \in DOMAIN out : out[i].summary # Empty

\* C6: no summary pushed by processSource contains a newline, whichever tier
\* produced it.
C6_NoNewline == \A i \in DOMAIN out : ~HasNewline(out[i].summary)

\* an item pushed with the summary field of a remote response that held newlines
C6_Witness ==
  /\ Len(out) = 1
  /\ lastDone # NoItem
  /\ lastDone.tier = "remote"
  /\ lastDone.resp.content = StrictJson
  /\ HasNewline(Trim(lastDone.resp.summary))
  /\ out[1].summary # Empty

\* C7 as claimed: every summary pushed by processSource ends with '.', '!' or
\* '?', on the remote path as on the local one.
C7_EndsWithTerminator == \A i \in DOMAIN out : EndsWithTerminator(out[i].summary)

\* C7 as amended: a summary produced by the local summarizer (no credential,
\* short or absent input, or a remote call that threw) ends with a period.
C7_LocalEndsWithPeriod ==
  (lastDone # NoItem /\ Len(out) > 0) =>
    ((~lastDone.threw /\ lastDone.tier \in {"local", "fallback"}) =>
       EndsWithDot(out[Len(out)].summary))

\* an item pushed with the local summary that replaces a failed remote call
C7_Witness ==
  /\ Len(out) = 1
  /\ lastDone # NoItem
  /\ lastDone.tier = "fallback"
  /\ lastDone.resp.kind = "content"

\* C8: localSummaryFromText returns the default phrase or a paragraph of
\* minSentences..maxSentences non-empty sentences, and never the empty string.
C8_SentenceBand ==
  pf.phase = "local" =>
    \A i \in DOMAIN pf.outs :
      /\ pf.outs[i] # Empty
      /\ \/ pf.outs[i] = DEFAULT_SUMMARY
         \/ Len(Sentences(pf.outs[i])) \in pf.minSentences..pf.maxSentences

\* C9: two calls of a local summarizer on the same input return the same text.
C9_Deterministic ==
  (pf.phase \in {"local", "title"} /\ Len(pf.outs) = 2) => pf.outs[1] = pf.outs[2]

\* C10: the remote call is made exactly for the items with a credential and
\* an input text of at least 100 characters; every other item is summarized
\* locally with no request, in processSource and in translateAndSummarize.
C10_RemoteOnlyWhenLongAndKeyed ==
  /\ pc = "remote" => hasOpenAI /\ StrLen(InputText(cur)) >= 100
  /\ lastDone # NoItem =>
       /\ lastDone.net = 1 <=> (hasOpenAI /\ StrLen(InputText(lastDone.it)) >= 100)
       /\ lastDone.net = 0 => lastDone.tier = "local"
  /\ v1.phase \in {"remote", "done"} =>
       /\ v1.net = 1 <=> (hasOpenAI /\ StrLen(ArticleInput(v1.article)) >= 100)
       /\ v1.net = 0 => v1.tier \in {"title", "fallback"}

\* with a credential, an item of 99 characters is summarized without a request
C10_Witness ==
  /\ hasOpenAI
  /\ lastDone # NoItem
  /\ lastDone.net = 0
  /\ StrLen(InputText(lastDone.it)) = 99
  /\ Len(out) = 1

\* the remote response holds (strictly or embedded in other text) a JSON object
\* with a titleKo and a summary, both non-empty strings
HasObject(content) == \E i \in DOMAIN content : content[i].c = "J"
WellFormed(resp) ==
  /\ resp.kind = "content"
  /\ HasObject(resp.content)
  /\ resp.titleKo # Empty /\ resp.summary # Empty
  /\ resp.strings

\* C11: when the remote call fails or its content is malformed (no JSON
\* object, or an object lacking titleKo or summary), the pushed item carries
\* the local fallback summary of the same input text and the original title.
C11_FallbackOnMalformed ==
  (lastDone # NoItem /\ lastDone.net = 1 /\ ~lastDone.threw
     /\ ~WellFormed(lastDone.resp)) =>
    /\ out[Len(out)].summary =
         FinalSummary(localSummaryFromText(InputText(lastDone.it), 5, 8))
    /\ out[Len(out)].translatedTitle = ItemTitle(lastDone.it)

\* C12: a response that is not strict JSON but embeds a well-formed object
\* yields that object's titleKo and summary, whatever text surrounds it.
C12_EmbeddedJsonExtracted ==
  (lastDone # NoItem /\ lastDone.net = 1 /\ ~lastDone.threw
     /\ WellFormed(lastDone.resp) /\ ParseJson(lastDone.resp.content) = "fail") =>
    /\ lastDone.tier = "remote"
    /\ out[Len(out)].summary = FinalSummary(Trim(NlToSpace(lastDone.resp.summary)))
    /\ out[Len(out)].translatedTitle = Trim(lastDone.resp.titleKo)

\* C15: every failure recovered during the run (a fetch that failed on its
\* last attempt, a feed that did not parse, a remote summary call that threw)
\* has a record in the errors list of the written output naming the category
\* and the source, with a reason.
C15_FailuresRecorded ==
  file.written =>
    \A i \in DOMAIN log :
      (log[i].fate.kind \in {"fetch", "parse"} \/ log[i].aiFailed) =>
        \E e \in DOMAIN file.data.errors :
          /\ file.data.errors[e].category = KeyOf(log[i].cat)
          /\ file.data.errors[e].source = Configured(log[i].cat)[log[i].src]
          /\ Truthy(file.data.errors[e].reason)

\* items are the feed's leading items, in order: item j is feed position j
Leading(items) ==
  /\ Len(items) <= 5
  /\ \A j \in DOMAIN items : items[j].url = j
AllLeading(res) ==
  \A c \in DOMAIN Categories :
    \A k \in DOMAIN res.categories[KeyOf(c)] :
      Leading(res.categories[KeyOf(c)][k].items)

\* C17: every source entry holds at most 5 items, the leading items of the
\* parsed feed in the feed's order; of a feed of n items, min(n, 5) are
\* processed, none skipped.
C17_LeadingItems ==
  /\ Leading(out)
  /\ AllLeading(result)
  /\ file.written => AllLeading(file.data)
  /\ (pc \in {"item", "remote", "push"} /\ "feed" \in DOMAIN fetchRes) =>
       /\ Len(out) + Len(rawItems) = Min2(fetchRes.feed, 5)
       /\ \A j \in DOMAIN rawItems : rawItems[j] = Len(out) + j

\* a feed longer than the cap was processed to the end
C17_Witness ==
  /\ pc = "push"
  /\ "feed" \in DOMAIN fetchRes
  /\ fetchRes.feed > 5
  /\ Len(out) = 5

\* the attempt ended with no 2xx response and readable body
FailedOutcome(o) ==
  \/ o.kind \in {"reject", "rejectEmpty", "stall", "bodyReject", "bodyStall"}
  \/ o.kind = "response" /\ ~(o.code >= 200 /\ o.code <= 299)

\* C18: fetchWithRetries makes at most RETRIES + 1 = 3 attempts, starts an
\* attempt after the first only when the one before it failed, and makes no
\* attempt after one that returned a 2xx response with a readable body.
C18_BoundedAttempts ==
  /\ attempt \in 1..3
  /\ (pc = "fetch" /\ attempt > 1) => FailedOutcome(lastOutcome)
  /\ pc = "body" => (lastOutcome.kind = "response" /\ ~FailedOutcome(lastOutcome))
  /\ fetchRes.kind = "ok" =>
       /\ pc \notin {"fetch", "body", "hung"}
       /\ lastOutcome.kind = "response" /\ ~FailedOutcome(lastOutcome)
  /\ fetchRes.kind = "fail" => (attempt = 3 /\ FailedOutcome(lastOutcome))

\* the third attempt succeeded after two failed ones
C18_Witness ==
  /\ fetchRes.kind = "ok"
  /\ attempt = 3
  /\ pc = "parse"

\* C19: no attempt waits without end: an attempt whose headers or body do not
\* arrive is aborted by its timer and recorded as "timeout", so the call
\* returns whatever the server does.
C19_StalledAttemptTimesOut ==
  /\ pc # "hung"
  /\ (fetchRes.kind = "fail" /\ lastOutcome.kind \in {"stall", "bodyStall"}) =>
       fetchRes.error = Reason("timeout", 0)

\* the first of content, contentSnippet, description, title that holds text
\* after trimming
FirstNonEmpty(it) ==
  IF Trim(it.content) # Empty THEN Trim(it.content)
  ELSE IF Trim(it.contentSnippet) # Empty THEN Trim(it.contentSnippet)
  ELSE IF Trim(it.description) # Empty THEN Trim(it.description)
  ELSE Trim(it.title)

\* C20: the text an item is summarized from is the first of content,
\* contentSnippet, description, title that is non-empty after trimming
\* (stated for the pushed items that carry no `summary` field, which the
\* claim's list does not name).
C20_InputPriority ==
  (lastDone # NoItem /\ ~lastDone.threw /\ lastDone.it.summary = Empty) =>
    (IF lastDone.net = 1 THEN InputText(lastDone.it) ELSE FallbackSource(lastDone.it))
      = FirstNonEmpty(lastDone.it)

\* a list of exactly 10 entries ranked 1..10, all read from rows of the page
Scraped(list) ==
  /\ Len(list) = 10
  /\ \A i \in DOMAIN list : list[i].rank = i /\ list[i].company[1] = "row"
  /\ \A i, j \in DOMAIN list : i # j => list[i].company # list[j].company

\* C13: each market-cap scraper returns exactly 10 entries: 10 scraped ones
\* when the page holds 10 usable rows, and the static default list when it
\* holds fewer or the request fails; never a partial list.
C13_NoPartialResult ==
  /\ Len(DEFAULT_KR) = 10 /\ Len(DEFAULT_US) = 10
  /\ mc.phase \in {"us", "save", "exited"} =>
       /\ Len(mc.kr) = 10
       /\ IF mc.krUsable THEN Scraped(mc.kr) ELSE mc.kr = DEFAULT_KR
  /\ mc.phase \in {"save", "exited"} =>
       /\ Len(mc.us) = 10
       /\ IF mc.usUsable THEN Scraped(mc.us) ELSE mc.us = DEFAULT_US

\* the Korean page fell short and gave the default list; the US page held a
\* row that is no company and still gave 10 scraped entries
C13_Witness ==
  /\ mc.phase = "save"
  /\ mc.bad = 1
  /\ mc.kr = DEFAULT_KR
  /\ mc.us # DEFAULT_US
  /\ \E i \in DOMAIN mc.us : mc.us[i].company[2] # i

\* C14: the process ends with exit code 0 exactly when it wrote the output
\* file; a failed write (or any fault of the file system calls in the
\* market-cap script) gives a non-zero code, and fetch, parse, remote-summary
\* and scrape failures alone leave the code at 0.
C14_ExitCode ==
  /\ exitCode \in {0, 2}
  /\ pc = "done" => (exitCode = 0 <=> file.written)
  /\ pc # "done" => (exitCode = 0 /\ ~file.written)
  /\ mc.phase \in {"kr", "us", "save"} => mc.exit = -1
  /\ mc.phase = "exited" =>
       /\ mc.exit \in {0, 1}
       /\ mc.exit = 0 <=> mc.wrote
       /\ mc.wrote <=> mc.data = Output(mc.run, mc.kr, mc.us)
       /\ mc.fault = "ok" => mc.exit = 0

\* a run in which a fetch failed and the write failed as well
C14_Witness ==
  /\ pc = "done"
  /\ exitCode = 2
  /\ \E i \in DOMAIN log : log[i].fate.kind = "fetch"

\* C16: a successful run of the market-cap script leaves in the .prev file
\* the content the output file had when the run started, if it existed then
\* (and leaves the .prev file alone if it did not), and its own output in the
\* output file.
C16_PrevIsLastGeneration ==
  (mc.phase = "exited" /\ mc.exit = 0) =>
    /\ mc.data = Output(mc.run, mc.kr, mc.us)
    /\ Exists(mc.atStart) => mc.prev = mc.atStart
    /\ ~Exists(mc.atStart) => mc.prev = mc.prevAtStart

\* the second of two successful runs: .prev holds the first run's output
C16_Witness ==
  /\ mc.phase = "exited"
  /\ mc.exit = 0
  /\ mc.run = 2
  /\ mc.atStart.updatedAt = 1
  /\ mc.prev = mc.atStart
  /\ mc.data # mc.prev

\* the number of configured sources, all categories together
RECURSIVE SourceCount(_)
SourceCount(c) == IF c = 0 THEN 0 ELSE Len(Configured(c)) + SourceCount(c - 1)

\* C21: the output file is written at most once per run, and only after every
\* configured source of every category has been processed: the file is
\* written only when main has left its loops for good, and no source is being
\* fetched, parsed or summarized while or after it is written.
C21_WrittenOnceAtEnd ==
  /\ pc \in {"fetch", "body", "hung", "parse", "item", "remote", "push", "catch",
             "write"} => ~file.written
  /\ file.written =>
       /\ pc = "done"
       /\ Len(log) = SourceCount(Len(Categories))
       /\ \A i \in DOMAIN log : log[i].fate.kind # "running" /\ HasEntry(file.data, i)
       /\ cur = NoItem
  /\ pc = "write" =>
       /\ Len(log) = SourceCount(Len(Categories))
       /\ \A i \in DOMAIN log : log[i].fate.kind # "running"

\* the file is written at the end of a run whose sources all gave items
C21_Witness ==
  /\ file.written
  /\ pc = "done"
  /\ \A i \in DOMAIN log : log[i].fate.kind = "ok" /\ log[i].fate.items > 0

\* the entry of log[i]'s source in `res` holds n items and no error, and the
\* errors list of `res` has no record for that source
CleanEntry(res, i, n) ==
  /\ Len(EntryOf(res, i).items) = n
  /\ EntryOf(res, i).error = NoReason
  /\ ~\E e \in DOMAIN res.errors :
        /\ res.errors[e].category = KeyOf(log[i].cat)
        /\ res.errors[e].source = Configured(log[i].cat)[log[i].src]

\* C22: a source whose fetch and parse succeeded with k items after
\* truncation gets an entry of exactly k items and no error, and no errors
\* record, whatever the items' fields hold (a missing or unparseable publish
\* date included) and however the remote calls end.
C22_ParsedSourceKeepsItems ==
  /\ (pc \in {"push", "catch"} /\ "feed" \in DOMAIN fetchRes) =>
       /\ pc = "push"
       /\ Len(out) = Min2(fetchRes.feed, 5)
       /\ ~Truthy(srcError)
  /\ \A i \in DOMAIN log :
       (log[i].fate.kind \in {"ok", "threw"} /\ HasEntry(result, i)) =>
         /\ log[i].fate.kind = "ok"
         /\ CleanEntry(result, i, log[i].fate.items)
         /\ file.written => CleanEntry(file.data, i, log[i].fate.items)

\* the same for the sources none of whose items made processSource throw
ParsedSourceKeepsItems_noThrow ==
  /\ (pc = "push" /\ "feed" \in DOMAIN fetchRes) =>
       /\ Len(out) = Min2(fetchRes.feed, 5)
       /\ ~Truthy(srcError)
  /\ \A i \in DOMAIN log :
       (log[i].fate.kind = "ok" /\ HasEntry(result, i)) =>
         /\ CleanEntry(result, i, log[i].fate.items)
         /\ file.written => CleanEntry(file.data, i, log[i].fate.items)

\* the leading n sentences of the paragraph are the leading n of the text
UsesLeading(paragraph, raw, n) ==
  /\ Len(Sentences(paragraph)) >= n
  /\ \A j \in 1..n : Sentences(paragraph)[j] = raw[j]

\* C23: the paragraph localSummaryFromText returns uses the first
\* min(number of sentences in the text, maxSentences) sentences of the text.
C23_TakesUpToMax ==
  pf.phase = "local" =>
    LET raw == Sentences(Cleaned(pf.text))
        n == Min2(Len(raw), pf.maxSentences)
    IN \A i \in DOMAIN pf.outs :
         Len(raw) > 0 =>
           /\ UsesLeading(pf.outs[i], raw, n)
           /\ Len(raw) >= pf.maxSentences =>
                Len(Sentences(pf.outs[i])) = pf.maxSentences

\* what the code does: the sentences taken are the first min(number of
\* sentences, minSentences), padded with the last one up to minSentences
TakesUpToMin ==
  pf.phase = "local" =>
    LET raw == Sentences(Cleaned(pf.text))
        n == Min2(Len(raw), pf.minSentences)
    IN \A i \in DOMAIN pf.outs :
         Len(raw) > 0 =>
           /\ UsesLeading(pf.outs[i], raw, n)
           /\ Len(Sentences(pf.outs[i])) = pf.minSentences

====
